---- MODULE Spec2Model ----
(***************************************************************************)
(* A model of the e-mail archiver (src/src/email_archiver.py): the         *)
(* ingestion pipeline process_emails / process_single_email, the metadata  *)
(* store written by store_email_metadata, the archive directory tree, and  *)
(* cleanup_mailbox, over an IMAP mailbox.                                   *)
(*                                                                         *)
(* Text is a sequence of one-character strings.  A header is either None   *)
(* or the sequence of fragments email.header.decode_header returns.        *)
(* Message identifiers are the identifiers the mailbox search returns;     *)
(* the mailbox keeps them stable.                                          *)
(***************************************************************************)
EXTENDS Integers, Sequences, FiniteSets, TLC

\* ------------------------------------------------------------------ bounds
\* Calendar days the archiver is observed over (datetime.now() of line 149).
MaxDay == 1
\* The messages of the large inbox, one more than the session cap.
BulkSize == 101

\* ------------------------------------------------------- program constants
max_emails_per_session == 100
max_errors == 5
SenderMaxLen == 50
FilenameMaxLen == 100
IdPrefixLen == 10
KeywordMinLen == 3
KeywordMaxLen == 30

None == "None"

\* ------------------------------------------------------------------- text
Lowers == {"a", "b", "c", "d", "e", "f", "g", "h", "i", "l", "m", "n", "o",
           "p", "r", "t", "x"}
Uppers == {"A", "B", "H", "N", "Q", "R"}
Digits == {"0", "1", "2", "3", "4", "5", "6", "7", "8", "9"}
Spaces == {" "}

\* str.isalnum for one character
isalnum(c) == c \in Lowers \cup Uppers \cup Digits

\* str.lower for one character
lowerChar(c) ==
  CASE c = "A" -> "a"
    [] c = "B" -> "b"
    [] c = "H" -> "h"
    [] c = "N" -> "n"
    [] c = "Q" -> "q"
    [] c = "R" -> "r"
    [] OTHER -> c

\* str.lower
lower(s) == [i \in 1..Len(s) |-> lowerChar(s[i])]

\* s[:n]
Take(s, n) == SubSeq(s, 1, IF Len(s) < n THEN Len(s) ELSE n)

\* "".join(c for c in s if keep(c)) with keep = isalnum
RECURSIVE OnlyAlnum(_)
OnlyAlnum(s) ==
  IF s = <<>> THEN <<>>
  ELSE IF isalnum(Head(s)) THEN <<Head(s)>> \o OnlyAlnum(Tail(s))
       ELSE OnlyAlnum(Tail(s))

\* str.split(): the maximal runs of non-whitespace characters, in order
RECURSIVE SplitFrom(_, _)
SplitFrom(s, cur) ==
  IF s = <<>> THEN (IF cur = <<>> THEN <<>> ELSE <<cur>>)
  ELSE IF Head(s) \in Spaces
       THEN (IF cur = <<>> THEN SplitFrom(Tail(s), <<>>)
             ELSE <<cur>> \o SplitFrom(Tail(s), <<>>))
       ELSE SplitFrom(Tail(s), Append(cur, Head(s)))

split(s) == SplitFrom(s, <<>>)

\* sender.split('@')[0]: the text before the first '@'
RECURSIVE BeforeAt(_)
BeforeAt(s) ==
  IF s = <<>> THEN <<>>
  ELSE IF Head(s) = "@" THEN <<>>
       ELSE <<Head(s)>> \o BeforeAt(Tail(s))

\* "".join(c if c.isalnum() or c in allowed else '_' for c in s)
Substitute(s, allowed) ==
  [i \in 1..Len(s) |-> IF isalnum(s[i]) \/ s[i] \in allowed THEN s[i] ELSE "_"]

\* safe_sender of process_single_email
SafeSender(sender) ==
  Take(Substitute(BeforeAt(sender), {"@", ".", "-", "_"}), SenderMaxLen)

\* safe_filename of process_single_email
SafeFilename(filename) ==
  Take(Substitute(filename, {".", "-", "_"}), FilenameMaxLen)

\* safe_decode_header: None gives "(No Header)", otherwise the first
\* fragment of decode_header(header)
NoHeader == <<"(", "N", "o", " ", "H", "e", "a", "d", "e", "r", ")">>

safe_decode_header(header) ==
  IF header = None THEN NoHeader ELSE header[1]

\* the keyword set of store_email_metadata
Keywords(subject, sender) ==
  LET words(text) == split(lower(text))
      clean(text) == {OnlyAlnum(words(text)[i]) : i \in 1..Len(words(text))}
  IN {w \in clean(subject) \cup clean(sender) :
        KeywordMinLen <= Len(w) /\ Len(w) <= KeywordMaxLen}

\* ', '.join(names)
RECURSIVE Join(_)
Join(names) ==
  IF names = <<>> THEN <<>>
  ELSE IF Len(names) = 1 THEN names[1]
       ELSE names[1] \o <<",", " ">> \o Join(Tail(names))

\* str(n) for the small counts the model reaches
DigitChar(n) ==
  CASE n = 0 -> "0" [] n = 1 -> "1" [] n = 2 -> "2" [] n = 3 -> "3"
    [] n = 4 -> "4" [] n = 5 -> "5" [] n = 6 -> "6" [] n = 7 -> "7"
    [] n = 8 -> "8" [] OTHER -> "9"

\* ------------------------------------------------------------ the mailbox
\* The messages of the inbox: what fetch(email_id, '(RFC822)') and
\* email.message_from_bytes give for each identifier.  A part is a node of
\* email_message.walk(): multipart containers and leaves, in walk order.
Part(mp, disp, fname, sub, payload) ==
  [multipart |-> mp, disposition |-> disp, filename |-> fname,
   subtype |-> sub, payload |-> payload]

Container == Part(TRUE, None, None, <<"m", "i", "x", "e", "d">>, "")

Id1 == <<"1">>
Id2 == <<"2">>
MsgIds == {Id1, Id2}

ReportPdf == <<"r", "e", "p", "o", "r", "t", " ", "f", "i", "n", "a", "l",
               ".", "p", "d", "f">>
Png == <<"p", "n", "g">>
Plain == <<"p", "l", "a", "i", "n">>

Msgs ==
  [id \in MsgIds |->
     IF id = Id1
     THEN \* nothing to archive: no Subject header, a display name in From,
          \* a body, an inline image, an attachment part with no payload
          [Subject |-> None,
           From |-> << <<"A", " ", "B", " ", "<", "a", "b", "@", "x", ".", "i", "o", ">">> >>,
           Date |-> << <<"0", "7">> >>,
           parts |-> <<Container,
                       Part(FALSE, None, None, Plain, "T1"),
                       Part(FALSE, "inline", None, Png, "T2"),
                       Part(FALSE, "attachment", None, Png, "")>>]
     ELSE \* a named attachment and an unnamed one
          [Subject |-> << <<"Q", "3", " ", "R", "e", "p", "o", "r", "t">> >>,
           From |-> << <<"a", "n", "n", "@", "x", ".", "i", "o">> >>,
           Date |-> << <<"1", "2">> >>,
           parts |-> <<Container,
                       Part(FALSE, None, None, Plain, "T3"),
                       Part(FALSE, "attachment", <<ReportPdf>>, <<"p", "d", "f">>, "P1"),
                       Part(FALSE, "attachment", None, Png, "P2")>>]]

\* A second inbox, of a server whose identifiers are longer than the ten
\* characters email_id.decode()[:10] keeps: two messages of one sender whose
\* identifiers differ in the eleventh character only.
IdL1 == <<"1", "0", "0", "0", "0", "0", "0", "0", "0", "0", "1">>
IdL2 == <<"1", "0", "0", "0", "0", "0", "0", "0", "0", "0", "2">>
LongIds == {IdL1, IdL2}

Bill == <<"B", "i", "l", "l">>
Bo == <<"b", "o", "@", "x", ".", "i", "o">>
Pdf == <<"p", "d", "f">>

LongMsgs ==
  [id \in LongIds |->
     IF id = IdL1
     THEN \* two attachments whose declared names differ in one character,
          \* a space in one and an underscore in the other
          [Subject |-> << Bill >>,
           From |-> << Bo >>,
           Date |-> << <<"1", "5">> >>,
           parts |-> <<Container,
                       Part(FALSE, "attachment", << <<"a", " ", "b", ".", "p", "d", "f">> >>, Pdf, "P3"),
                       Part(FALSE, "attachment", << <<"a", "_", "b", ".", "p", "d", "f">> >>, Pdf, "P4")>>]
     ELSE [Subject |-> << Bill >>,
           From |-> << Bo >>,
           Date |-> << <<"1", "6">> >>,
           parts |-> <<Container,
                       Part(FALSE, "attachment", << <<"a", " ", "b", ".", "p", "d", "f">> >>, Pdf, "P5")>>]]

\* str(n)
RECURSIVE Decimal(_)
Decimal(n) ==
  IF n < 10 THEN <<DigitChar(n)>> ELSE Decimal(n \div 10) \o <<DigitChar(n % 10)>>

\* A third inbox, larger than one session takes: BulkSize messages without
\* attachments, numbered from 3 on.
BulkId(n) == Decimal(n + 2)
BulkOrder == [n \in 1..BulkSize |-> BulkId(n)]
BulkIds == {BulkOrder[n] : n \in 1..BulkSize}

BulkMsg ==
  [Subject |-> << <<"H", "i">> >>,
   From |-> << Bo >>,
   Date |-> << <<"2", "0">> >>,
   parts |-> <<Part(FALSE, None, None, Plain, "T4")>>]

Message(id) ==
  IF id \in MsgIds THEN Msgs[id]
  ELSE IF id \in LongIds THEN LongMsgs[id]
  ELSE BulkMsg

\* the order in which the mailbox lists its messages
InboxOrder == <<Id1, Id2, IdL1, IdL2>> \o BulkOrder

\* a search for ALL instead of UNSEEN
SearchAll(inbox, seenSet) == SelectSeq(InboxOrder, LAMBDA m : m \in inbox)

\* mail.search(None, '(UNSEEN)') then messages[0].split(): the unseen
\* messages of the inbox, in mailbox order
SearchUnseen(inbox, seenSet) ==
  SelectSeq(InboxOrder, LAMBDA m : m \in inbox /\ m \notin seenSet)

\* ---------------------------------------------------------- the store
\* archived_emails and search_index; a row's id is its position
\* (INTEGER PRIMARY KEY AUTOINCREMENT, and no row is ever deleted).
EmptyDb == [emails |-> <<>>, index |-> <<>>]

StoredIds(d) == {d.emails[i].email_id : i \in 1..Len(d.emails)}

\* archived_emails without the UNIQUE constraint
NoUniqueConstraint(d, email_id) == FALSE

\* email_id TEXT UNIQUE
UniqueViolation(d, email_id) == email_id \in StoredIds(d)

\* the orders in which `for keyword in keywords` can visit a set
Orders(S) ==
  {o \in [1..Cardinality(S) -> S] : \A i, j \in 1..Cardinality(S) : o[i] = o[j] => i = j}

\* The keyword INSERTs of the loop, the first n of them.  Each passes
\* cursor.lastrowid: the id of the archived_emails row before the first
\* keyword INSERT, the id of the search_index row just inserted after it.
RECURSIVE InsertKeywords(_, _, _, _)
InsertKeywords(tx, lastrowid, order, n) ==
  IF n = 0 \/ order = <<>> THEN tx
  ELSE LET row == [email_id |-> lastrowid, keyword |-> Head(order)]
           tx2 == [tx EXCEPT !.index = Append(tx.index, row)]
       IN InsertKeywords(tx2, Len(tx2.index), Tail(order), n - 1)

\* The failure points of one store_email_metadata call: none, the
\* archived_emails INSERT, the k-th search_index INSERT, the commit.
FailPoints == {<<"none", 0>>, <<"email", 0>>, <<"keyword", 1>>, <<"keyword", 2>>,
               <<"commit", 0>>}

\* The transaction as it stands when the try block ends or raises:
\* [tx: the uncommitted rows, raised: whether the block raised, at: the
\* statement that raised].
StoreTry(d, email_id, subject, sender, date_received, attachments, archive_path, fp, order) ==
  LET row == [email_id |-> email_id, subject |-> subject, sender |-> sender,
              date_received |-> date_received, attachments |-> Join(attachments),
              archive_path |-> archive_path]
      tx1 == [d EXCEPT !.emails = Append(d.emails, row)]
      n == Len(order)
  IN IF UniqueViolation(d, email_id)
     THEN [tx |-> d, raised |-> TRUE, at |-> <<"unique", 0>>]
     ELSE IF fp[1] = "email"
     THEN [tx |-> d, raised |-> TRUE, at |-> fp]
     ELSE IF fp[1] = "keyword" /\ fp[2] <= n
          THEN [tx |-> InsertKeywords(tx1, Len(tx1.emails), order, fp[2] - 1),
                raised |-> TRUE, at |-> fp]
          ELSE [tx |-> InsertKeywords(tx1, Len(tx1.emails), order, n),
                raised |-> fp[1] = "commit",
                at |-> IF fp[1] = "commit" THEN fp ELSE <<"none", 0>>]

\* a rollback that discards nothing: the rows executed so far stay
RollbackKeepsPartial(committed, tx) == tx

\* self.db_conn.rollback(): the uncommitted rows are discarded
Rollback(committed, tx) == committed

\* store_email_metadata on the connection conn (self.db_conn): the
\* committed store after the call, and whether the insert failed.  The
\* except clause swallows the failure: the method returns None either way.
\* Without the db_conn attribute, self.db_conn.cursor() raises inside the
\* try and self.db_conn.rollback() raises again inside the except clause:
\* that exception leaves the method.
store_email_metadata(conn, d, email_id, subject, sender, date_received, attachments, archive_path, fp, order) ==
  LET t == StoreTry(d, email_id, subject, sender, date_received, attachments,
                    archive_path, fp, order)
  IN IF conn = None
     THEN [db |-> d, failed |-> TRUE, at |-> <<"cursor", 0>>, raises |-> TRUE]
     ELSE IF t.raised
     THEN [db |-> Rollback(d, t.tx), failed |-> TRUE, at |-> t.at, raises |-> FALSE]
     ELSE [db |-> t.tx, failed |-> FALSE, at |-> t.at, raises |-> FALSE]

\* ------------------------------------------------------------ the search
\* str.strip
RECURSIVE lstrip(_)
lstrip(s) == IF s # <<>> /\ Head(s) \in Spaces THEN lstrip(Tail(s)) ELSE s

RECURSIVE rstrip(_)
rstrip(s) ==
  IF s # <<>> /\ s[Len(s)] \in Spaces THEN rstrip(SubSeq(s, 1, Len(s) - 1)) ELSE s

strip(s) == rstrip(lstrip(s))

\* text LIKE pat of SQLite: % matches any run of characters, _ matches any
\* one character, letters match without regard to case
RECURSIVE Like(_, _)
Like(text, pat) ==
  IF pat = <<>> THEN text = <<>>
  ELSE IF Head(pat) = "%"
       THEN Like(text, Tail(pat)) \/ (text # <<>> /\ Like(Tail(text), pat))
       ELSE /\ text # <<>>
            /\ (Head(pat) = "_" \/ lowerChar(Head(text)) = lowerChar(Head(pat)))
            /\ Like(Tail(text), Tail(pat))

\* f'%{query}%'
Percent(query) == <<"%">> \o query \o <<"%">>

\* the rank of a character in the BINARY collation, for the dates the
\* model stores
DigitRank(c) ==
  CASE c = "0" -> 0 [] c = "1" -> 1 [] c = "2" -> 2 [] c = "3" -> 3
    [] c = "4" -> 4 [] c = "5" -> 5 [] c = "6" -> 6 [] c = "7" -> 7
    [] c = "8" -> 8 [] OTHER -> 9

\* a < b for two TEXT values
RECURSIVE TextLess(_, _)
TextLess(a, b) ==
  IF b = <<>> THEN FALSE
  ELSE IF a = <<>> THEN TRUE
  ELSE IF Head(a) = Head(b) THEN TextLess(Tail(a), Tail(b))
  ELSE DigitRank(Head(a)) < DigitRank(Head(b))

\* ORDER BY e.date_received DESC: insertion of one row into a sorted list
RECURSIVE InsertDesc(_, _)
InsertDesc(rows, r) ==
  IF rows = <<>> THEN <<r>>
  ELSE IF TextLess(Head(rows).date, r.date) THEN <<r>> \o rows
  ELSE <<Head(rows)>> \o InsertDesc(Tail(rows), r)

RECURSIVE SortDesc(_)
SortDesc(rows) ==
  IF rows = <<>> THEN <<>> ELSE InsertDesc(SortDesc(Tail(rows)), Head(rows))

\* SELECT DISTINCT: a row equal to an earlier one is dropped
RECURSIVE Distinct(_)
Distinct(rows) ==
  IF rows = <<>> THEN <<>>
  ELSE LET rest == Distinct(SubSeq(rows, 1, Len(rows) - 1))
           r == rows[Len(rows)]
       IN IF \E i \in 1..Len(rest) : rest[i] = r THEN rest ELSE Append(rest, r)

SearchLimit == 100

\* the WHERE clause for the archived_emails row i of d, joined with the
\* search_index rows whose email_id is i
Matches(d, i, pat) ==
  LET e == d.emails[i]
  IN \/ Like(e.subject, pat)
     \/ Like(e.sender, pat)
     \/ Like(e.attachments, pat)
     \/ Like(e.date_received, pat)
     \/ \E k \in 1..Len(d.index) :
          d.index[k].email_id = i /\ Like(d.index[k].keyword, pat)

\* the result dictionary of one row
ResultRow(e) ==
  [subject |-> e.subject, sender |-> e.sender, date |-> e.date_received,
   attachments |-> e.attachments, path |-> e.archive_path]

\* What can go wrong in one search_emails call: the statement of line 262
\* (before the try) raises, or the SELECT inside the try raises.
SearchFaults == {"none", "probe_raise", "select_raise"}

\* search_emails(query) on the connection conn and the store d:
\* [results: the list returned, raises: an exception left the method,
\* logged: an error was logged].
search_emails(conn, d, query, fault) ==
  LET q == lower(strip(query))
      pat == Percent(q)
      hits == SelectSeq([i \in 1..Len(d.emails) |-> i], LAMBDA i : Matches(d, i, pat))
      rows == [k \in 1..Len(hits) |-> ResultRow(d.emails[hits[k]])]
  IN IF conn = None \/ fault = "probe_raise"
     THEN \* line 262 uses self.db_conn outside the try
          [query |-> query, results |-> <<>>, raises |-> TRUE, logged |-> FALSE]
     ELSE IF fault = "select_raise"
     THEN [query |-> query, results |-> <<>>, raises |-> FALSE, logged |-> TRUE]
     ELSE [query |-> query, results |-> Take(SortDesc(Distinct(rows)), SearchLimit),
           raises |-> FALSE, logged |-> FALSE]

\* ------------------------------------------------------ the archive tree
\* os.path.join(archive_root, archive_date, safe_sender, email_id[:10])
ArchiveDir(day, sender, email_id) ==
  <<day, SafeSender(sender), Take(email_id, IdPrefixLen)>>

\* f"attachment_{len(attachments)}.{ext}"
SynthName(n, ext) ==
  <<"a", "t", "t", "a", "c", "h", "m", "e", "n", "t", "_", DigitChar(n), ".">> \o ext

\* 'attachment' in disposition.lower(), disposition = str(part.get(...))
IsAttachment(part) == part.disposition = "attachment"

\* What one attempt to save a part's payload can do: write the file, raise
\* before the file exists (get_payload or open fails), or raise after
\* open(filepath, 'wb') created it (write or close fails).
WriteModes == {"ok", "nofile", "partial"}

Put(dsk, path, data) ==
  [q \in DOMAIN dsk \cup {path} |-> IF q = path THEN data ELSE dsk[q]]

\* an attachment loop that gives up at the first part whose write fails
RECURSIVE ExtractUntilFailure(_, _, _, _, _, _)
ExtractUntilFailure(parts, i, dir, wmode, attachments, dsk) ==
  IF i > Len(parts) THEN [attachments |-> attachments, disk |-> dsk]
  ELSE LET part == parts[i]
           filename == IF part.filename = None
                       THEN << SynthName(Len(attachments), part.subtype) >>
                       ELSE part.filename
           safe_filename == SafeFilename(safe_decode_header(filename))
           filepath == <<dir, safe_filename>>
       IN IF part.multipart \/ ~IsAttachment(part) \/ part.payload = ""
          THEN ExtractUntilFailure(parts, i + 1, dir, wmode, attachments, dsk)
          ELSE CASE wmode[i] = "ok" ->
                      ExtractUntilFailure(parts, i + 1, dir, wmode,
                                          Append(attachments, safe_filename),
                                          Put(dsk, filepath, part.payload))
                 [] wmode[i] = "partial" ->
                      [attachments |-> attachments, disk |-> Put(dsk, filepath, "partial")]
                 [] OTHER -> [attachments |-> attachments, disk |-> dsk]

\* The attachment loop of process_single_email from part i on:
\* [attachments: the names appended, disk: the files].
RECURSIVE Extract(_, _, _, _, _, _)
Extract(parts, i, dir, wmode, attachments, dsk) ==
  IF i > Len(parts) THEN [attachments |-> attachments, disk |-> dsk]
  ELSE LET part == parts[i]
           filename == IF part.filename = None
                       THEN << SynthName(Len(attachments), part.subtype) >>
                       ELSE part.filename
           safe_filename == SafeFilename(safe_decode_header(filename))
           filepath == <<dir, safe_filename>>
       IN IF part.multipart \/ ~IsAttachment(part)
          THEN Extract(parts, i + 1, dir, wmode, attachments, dsk)
          ELSE IF part.payload = ""
               THEN Extract(parts, i + 1, dir, wmode, attachments, dsk)
               ELSE CASE wmode[i] = "ok" ->
                           Extract(parts, i + 1, dir, wmode,
                                   Append(attachments, safe_filename),
                                   Put(dsk, filepath, part.payload))
                      [] wmode[i] = "partial" ->
                           Extract(parts, i + 1, dir, wmode, attachments,
                                   Put(dsk, filepath, "partial"))
                      [] OTHER ->
                           Extract(parts, i + 1, dir, wmode, attachments, dsk)

\* ---------------------------------------------------------------- state
VARIABLES
  mbox,                  \* the messages in the inbox (identifiers)
  seen,                  \* the messages that were marked \Seen
  flagged,               \* the messages carrying \Deleted
  db,                    \* the committed content of email_archive.db
  disk,                  \* the files under archive_root: path -> content
  dirs,                  \* the directories os.makedirs created
  today,                 \* the date datetime.now() gives
  delete_after_archive,  \* config['delete_after_archive']
  error_count,           \* self.error_count
  pc,                    \* where the running menu operation stands
  email_ids,             \* email_ids of process_emails (line 105)
  batch,                 \* email_ids[:self.max_emails_per_session]
  idx,                   \* the position of the for loop in batch
  processed_count,       \* processed_count of process_emails
  run,                   \* the operation running or last run, and its session
  last,                  \* what the last process_single_email call of the
                         \* running batch did
  db_conn,               \* self.db_conn, or None when the attribute is missing
  found                  \* the last search_emails call of the menu: its
                         \* query and what it gave

vars == <<mbox, seen, flagged, db, disk, dirs, today, delete_after_archive,
          error_count, pc, email_ids, batch, idx, processed_count, run, last, db_conn,
          found>>

NoRun == [op |-> "none", status |-> "returned", connected |-> FALSE,
          close_called |-> FALSE, logout_called |-> FALSE]

NoCall == [id |-> None, outcome |-> "none", ret |-> FALSE, attachments |-> <<>>,
           dir |-> None, store_failed |-> FALSE, failed_at |-> <<"none", 0>>,
           write_failed |-> FALSE, wmode |-> <<>>]

NoSearch == [query |-> None, results |-> <<>>, raises |-> FALSE, logged |-> FALSE]

\* the dates datetime.now() can give, numbered from the first day
Days == 0..MaxDay

\* An archive left by an earlier execution of the program, on the first
\* day: email_archive.db and archive_root outlive the process (CREATE TABLE
\* IF NOT EXISTS, makedirs with exist_ok).
EarlierDir == ArchiveDir(0, safe_decode_header(Message(Id2).From), Id2)

EarlierDisk == Extract(Message(Id2).parts, 1, EarlierDir,
                       [i \in 1..Len(Message(Id2).parts) |-> "ok"], <<>>, <<>>)

EarlierDb ==
  LET m == Message(Id2)
      subject == safe_decode_header(m.Subject)
      sender == safe_decode_header(m.From)
      order == CHOOSE o \in Orders(Keywords(subject, sender)) : TRUE
  IN store_email_metadata("open", EmptyDb, Id2, subject, sender, safe_decode_header(m.Date),
                          EarlierDisk.attachments, EarlierDir, <<"none", 0>>, order).db

Init ==
  /\ db_conn = "open"
  /\ mbox = MsgIds
  /\ seen = {}
  /\ flagged = {}
  /\ \/ db = EmptyDb /\ disk = <<>> /\ dirs = {}
     \/ db = EarlierDb /\ disk = EarlierDisk.disk /\ dirs = {EarlierDir}
  /\ today = 0
  /\ delete_after_archive \in BOOLEAN
  /\ error_count = 0
  /\ pc = "menu"
  /\ email_ids = <<>>
  /\ batch = <<>>
  /\ idx = 1
  /\ processed_count = 0
  /\ run = NoRun
  /\ last = NoCall
  /\ found = NoSearch

\* the same program started on the inbox of long identifiers, with an
\* empty archive
InitLongIds ==
  /\ db_conn = "open"
  /\ mbox = LongIds
  /\ seen = {}
  /\ flagged = {}
  /\ db = EmptyDb
  /\ disk = <<>>
  /\ dirs = {}
  /\ today = 0
  /\ delete_after_archive \in BOOLEAN
  /\ error_count = 0
  /\ pc = "menu"
  /\ email_ids = <<>>
  /\ batch = <<>>
  /\ idx = 1
  /\ processed_count = 0
  /\ run = NoRun
  /\ last = NoCall
  /\ found = NoSearch

\* an archiver object whose db_conn attribute was never set (__init__ did
\* not run line 14 for it), on the inbox of Msgs
InitNoStore ==
  /\ db_conn = None
  /\ mbox = MsgIds
  /\ seen = {}
  /\ flagged = {}
  /\ db = EmptyDb
  /\ disk = <<>>
  /\ dirs = {}
  /\ today = 0
  /\ delete_after_archive \in BOOLEAN
  /\ error_count = 0
  /\ pc = "menu"
  /\ email_ids = <<>>
  /\ batch = <<>>
  /\ idx = 1
  /\ processed_count = 0
  /\ run = NoRun
  /\ last = NoCall
  /\ found = NoSearch

\* the same program started on the large inbox, with an empty archive
InitBulk ==
  /\ db_conn = "open"
  /\ mbox = BulkIds
  /\ seen = {}
  /\ flagged = {}
  /\ db = EmptyDb
  /\ disk = <<>>
  /\ dirs = {}
  /\ today = 0
  /\ delete_after_archive \in BOOLEAN
  /\ error_count = 0
  /\ pc = "menu"
  /\ email_ids = <<>>
  /\ batch = <<>>
  /\ idx = 1
  /\ processed_count = 0
  /\ run = NoRun
  /\ last = NoCall
  /\ found = NoSearch

\* --------------------------------------------------- process_single_email
\* What can go wrong in one call, besides the store: the fetch answers NO,
\* the fetch raises with the message left unseen or already marked seen by
\* the server, parsing raises, os.makedirs raises.
PreFaults == {"fetch_no", "fetch_raise", "fetch_raise_seen", "parse_raise",
              "makedirs_raise"}

\* the parts whose payload the loop tries to write
WrittenParts(id) ==
  {i \in 1..Len(Message(id).parts) :
     LET part == Message(id).parts[i]
     IN ~part.multipart /\ IsAttachment(part) /\ part.payload # ""}

AllOk(id) == [i \in 1..Len(Message(id).parts) |-> "ok"]

WModes(id) ==
  {[i \in 1..Len(Message(id).parts) |-> IF i \in WrittenParts(id) THEN w[i] ELSE "ok"] :
     w \in [WrittenParts(id) -> WriteModes]}

KeywordsOf(id) ==
  Keywords(safe_decode_header(Message(id).Subject), safe_decode_header(Message(id).From))

AnyOrder(id) == CHOOSE o \in Orders(KeywordsOf(id)) : TRUE

\* The fault combinations that differ in effect: a fault before the
\* attachment loop; write modes that save nothing; write modes that save
\* something, with a store that succeeds (in each keyword order) or fails,
\* and a deletion flagging that works or raises.
FaultsOf ==
  [id \in MsgIds \cup LongIds |->
     {[at |-> a, wmode |-> AllOk(id), fp |-> <<"none", 0>>,
       order |-> AnyOrder(id), flag_raises |-> FALSE] : a \in PreFaults}
     \cup
     {[at |-> "none", wmode |-> w, fp |-> <<"none", 0>>, order |-> o,
       flag_raises |-> r] :
        w \in WModes(id), o \in Orders(KeywordsOf(id)), r \in BOOLEAN}
     \cup
     {[at |-> "none", wmode |-> w, fp |-> p, order |-> AnyOrder(id),
       flag_raises |-> r] :
        w \in WModes(id), p \in FailPoints, r \in BOOLEAN}]

\* The messages of the large inbox: the fetch of one of the first
\* max_errors of them may raise after the server marked the message seen;
\* the others are fetched and parsed without fault.
BulkFaults(id) ==
  {[at |-> a, wmode |-> AllOk(id), fp |-> <<"none", 0>>, order |-> <<>>,
    flag_raises |-> FALSE] :
     a \in IF \E n \in 1..max_errors : id = BulkId(n)
           THEN {"none", "fetch_raise_seen"} ELSE {"none"}}

Faults(id) == IF id \in DOMAIN FaultsOf THEN FaultsOf[id] ELSE BulkFaults(id)

\* the except clause of process_single_email: count the error, return False
Caught(st) ==
  [st EXCEPT !.error_count = error_count + 1, !.ret = FALSE,
             !.outcome = "exception"]

\* a fetch answered NO counted as an error
FetchNotOkCounted(st) ==
  [st EXCEPT !.outcome = "fetch_no", !.ret = FALSE, !.error_count = @ + 1]

\* lines 132-134: the fetch status is not OK, warn and return False
FetchNotOk(st) == [st EXCEPT !.outcome = "fetch_no", !.ret = FALSE]

\* a message without attachments counted as an error
NoAttachmentsCounted(st) ==
  [st EXCEPT !.outcome = "no_attachments", !.ret = FALSE,
             !.error_count = @ + 1]

\* lines 218-220: nothing was saved, warn and return False
NoAttachments(st) == [st EXCEPT !.outcome = "no_attachments", !.ret = FALSE]

\* process_single_email(mail, email_id) under the faults f: the values it
\* leaves in the mailbox, the archive tree, the store and the error counter,
\* and its return value.
process_single_email(id, f) ==
  LET msg == Message(id)
      subject == safe_decode_header(msg.Subject)
      sender == safe_decode_header(msg.From)
      date_received == safe_decode_header(msg.Date)
      archive_dir == ArchiveDir(today, sender, id)
      st0 == [seen |-> seen, dirs |-> dirs, disk |-> disk, db |-> db,
              flagged |-> flagged, error_count |-> error_count, ret |-> FALSE,
              outcome |-> "fetch_no", attachments |-> <<>>, dir |-> None,
              store_failed |-> FALSE, failed_at |-> <<"none", 0>>,
              write_failed |-> FALSE, raises |-> FALSE]
      \* a fetch of RFC822 marks the message \Seen
      st1 == [st0 EXCEPT !.seen = seen \cup {id}]
      ex == Extract(msg.parts, 1, archive_dir, f.wmode, <<>>, disk)
      st2 == [st1 EXCEPT !.dirs = dirs \cup {archive_dir}, !.disk = ex.disk,
                         !.attachments = ex.attachments, !.dir = archive_dir,
                         !.write_failed =
                            \E i \in WrittenParts(id) : f.wmode[i] # "ok"]
      stored == store_email_metadata(db_conn, db, id, subject, sender, date_received,
                                     ex.attachments, archive_dir, f.fp, f.order)
      st3 == [st2 EXCEPT !.db = stored.db, !.store_failed = stored.failed,
                         !.failed_at = stored.at]
  IN CASE f.at = "fetch_no" -> FetchNotOk(st0)
       [] f.at = "fetch_raise" -> Caught(st0)
       [] f.at = "fetch_raise_seen" -> Caught(st1)
       [] f.at = "parse_raise" -> Caught(st1)
       [] f.at = "makedirs_raise" -> Caught(st1)
       [] OTHER ->
            IF ex.attachments = <<>>
            THEN NoAttachments(st2)
            ELSE IF stored.raises THEN Caught(st3)
            ELSE IF delete_after_archive
                 THEN IF f.flag_raises THEN Caught(st3)
                      ELSE [st3 EXCEPT !.flagged = flagged \cup {id},
                                       !.ret = TRUE, !.outcome = "archived"]
                 ELSE [st3 EXCEPT !.ret = TRUE, !.outcome = "archived"]

\* ----------------------------------------------------------- the session
\* connect_to_mailbox: the session selected on 'inbox', or None when
\* IMAP4_SSL, login or select raises (the method catches the exception).
connect_to_mailbox(outcome) ==
  IF outcome = "ok" THEN "session" ELSE None

\* The CLOSE command of imaplib's mail.close(): the selected mailbox is
\* writable (select without readonly), so the server removes every message
\* flagged \Deleted as it closes the mailbox.
Expunged(inbox, deleted) == inbox \ deleted

\* the finally block without its try/except: a failing close or logout
\* leaves process_emails as an exception
CloseSessionUnguarded(r, close_out, logout_out) ==
  [run |-> [r EXCEPT !.close_called = TRUE,
                     !.logout_called = (close_out = "ok"),
                     !.status = IF close_out = "ok" /\ logout_out = "ok"
                                THEN "returned" ELSE "raised"],
   closed |-> close_out = "ok"]

\* The finally block of process_emails: try: mail.close(); mail.logout()
\* except: pass.  logout is reached only when close did not raise.
CloseSession(r, close_out, logout_out) ==
  [run |-> [r EXCEPT !.close_called = TRUE,
                     !.logout_called = (close_out = "ok"),
                     !.status = "returned"],
   closed |-> close_out = "ok"]

\* The finally block of cleanup_mailbox: mail.close(); mail.logout(), with
\* no handler, so a failure leaves cleanup_mailbox as an exception.
CleanupCloseSession(r, close_out, logout_out) ==
  [run |-> [r EXCEPT !.close_called = TRUE,
                     !.logout_called = (close_out = "ok"),
                     !.status = IF close_out = "ok" /\ logout_out = "ok"
                                THEN "returned" ELSE "raised"],
   closed |-> close_out = "ok"]

CallOutcomes == {"ok", "raise"}

\* ---------------------------------------------------------- process_emails
\* menu choice 1, lines 93-96: connect, or log and return
ProcessConnect ==
  /\ pc = "menu"
  /\ UNCHANGED <<db_conn, found>>
  /\ \E o \in CallOutcomes :
       LET mail == connect_to_mailbox(o)
           r == [NoRun EXCEPT !.op = "process"]
       IN IF mail = "raise"
          THEN /\ run' = [r EXCEPT !.status = "raised"]
               /\ pc' = "menu"
          ELSE IF mail = None
               THEN /\ run' = r
                    /\ pc' = "menu"
               ELSE /\ run' = [r EXCEPT !.status = "running", !.connected = TRUE]
                    /\ pc' = "search"
  /\ email_ids' = <<>>
  /\ batch' = <<>>
  /\ idx' = 1
  /\ processed_count' = 0
  /\ last' = NoCall
  /\ UNCHANGED <<mbox, seen, flagged, db, disk, dirs, today, delete_after_archive,
                 error_count>>

\* a loop over every identifier found
SessionBatchUncapped(ids) == ids

\* line 109: email_ids[:self.max_emails_per_session]
SessionBatch(ids) == Take(ids, max_emails_per_session)

\* lines 100-108: the unseen search; a status other than OK returns, an
\* exception goes to the except clause; both then run the finally block
ProcessSearch ==
  /\ pc = "search"
  /\ UNCHANGED <<db_conn, found>>
  /\ \E o \in {"OK", "NO", "raise"} :
       IF o = "OK"
       THEN /\ email_ids' = SearchUnseen(mbox, seen)
            /\ batch' = SessionBatch(email_ids')
            /\ pc' = "batch"
       ELSE /\ email_ids' = <<>>
            /\ batch' = <<>>
            /\ pc' = "closing"
  /\ idx' = 1
  /\ processed_count' = 0
  /\ UNCHANGED <<mbox, seen, flagged, db, disk, dirs, today, delete_after_archive,
                 error_count, run, last>>

\* line 110: the error budget is checked before each identifier
BudgetSpent == error_count >= max_errors

\* lines 109-115: one iteration of the for loop that calls
\* process_single_email
ProcessOne ==
  /\ pc = "batch"
  /\ UNCHANGED email_ids
  /\ UNCHANGED <<db_conn, found>>
  /\ idx <= Len(batch)
  /\ ~BudgetSpent
  /\ \E f \in Faults(batch[idx]) :
       \E st \in {process_single_email(batch[idx], f)} :
          /\ seen' = st.seen
          /\ dirs' = st.dirs
          /\ disk' = st.disk
          /\ db' = st.db
          /\ flagged' = st.flagged
          /\ error_count' = st.error_count
          /\ processed_count' = IF st.ret THEN processed_count + 1 ELSE processed_count
          /\ last' = [id |-> batch[idx], outcome |-> st.outcome, ret |-> st.ret,
                      attachments |-> st.attachments, dir |-> st.dir,
                      store_failed |-> st.store_failed,
                      failed_at |-> st.failed_at,
                      write_failed |-> st.write_failed,
                      wmode |-> IF st.dir = None THEN <<>> ELSE f.wmode]
          /\ IF st.raises
             THEN pc' = "closing"
             ELSE pc' = "batch"
  /\ idx' = idx + 1
  /\ UNCHANGED <<mbox, today, delete_after_archive, batch, run>>

\* lines 110-112: the error limit is reached, break
ProcessBreak ==
  /\ pc = "batch"
  /\ UNCHANGED email_ids
  /\ UNCHANGED <<db_conn, found>>
  /\ idx <= Len(batch)
  /\ BudgetSpent
  /\ pc' = "closing"
  /\ UNCHANGED <<mbox, seen, flagged, db, disk, dirs, today, delete_after_archive,
                 error_count, batch, idx, processed_count, run, last>>

\* line 117: the loop ran out of identifiers
ProcessEnd ==
  /\ pc = "batch"
  /\ UNCHANGED email_ids
  /\ UNCHANGED <<db_conn, found>>
  /\ idx > Len(batch)
  /\ pc' = "closing"
  /\ UNCHANGED <<mbox, seen, flagged, db, disk, dirs, today, delete_after_archive,
                 error_count, batch, idx, processed_count, run, last>>

\* lines 121-126: the finally block
ProcessClose ==
  /\ pc = "closing"
  /\ UNCHANGED <<db_conn, found>>
  /\ \E co \in CallOutcomes, lo \in CallOutcomes :
       LET c == CloseSession(run, co, lo)
       IN /\ run' = c.run
          /\ mbox' = IF c.closed THEN Expunged(mbox, flagged) ELSE mbox
          /\ flagged' = IF c.closed THEN {} ELSE flagged
  /\ pc' = "menu"
  \* the locals of the call are gone once it returns
  /\ email_ids' = <<>>
  /\ batch' = <<>>
  /\ idx' = 1
  /\ processed_count' = 0
  /\ last' = NoCall
  /\ UNCHANGED <<seen, db, disk, dirs, today, delete_after_archive, error_count>>

\* ---------------------------------------------------------- cleanup_mailbox
\* menu choice 3, lines 303-305
CleanupConnect ==
  /\ pc = "menu"
  /\ UNCHANGED email_ids
  /\ UNCHANGED <<db_conn, found>>
  /\ \E o \in CallOutcomes :
       LET mail == connect_to_mailbox(o)
           r == [NoRun EXCEPT !.op = "cleanup"]
       IN IF mail = "raise"
          THEN /\ run' = [r EXCEPT !.status = "raised"]
               /\ pc' = "menu"
          ELSE IF mail = None
               THEN /\ run' = r
                    /\ pc' = "menu"
               ELSE /\ run' = [r EXCEPT !.status = "running", !.connected = TRUE]
                    /\ pc' = "confirm"
  /\ UNCHANGED <<mbox, seen, flagged, db, disk, dirs, today, delete_after_archive,
                 error_count, batch, idx, processed_count, last>>

\* lines 307-316: select, ask, expunge on 'y'; an exception is logged
CleanupConfirm ==
  /\ pc = "confirm"
  /\ UNCHANGED email_ids
  /\ UNCHANGED <<db_conn, found>>
  /\ \E response \in {"y", "n"}, o \in CallOutcomes :
       IF response = "y" /\ o = "ok"
       THEN /\ mbox' = Expunged(mbox, flagged)
            /\ flagged' = {}
            /\ pc' = "purged"
       ELSE /\ UNCHANGED <<mbox, flagged>>
            /\ pc' = "declined"
  /\ UNCHANGED <<seen, db, disk, dirs, today, delete_after_archive, error_count, batch,
                 idx, processed_count, run, last>>

\* lines 317-319: the finally block of cleanup_mailbox
CleanupClose ==
  /\ pc \in {"purged", "declined"}
  /\ UNCHANGED email_ids
  /\ UNCHANGED <<db_conn, found>>
  /\ \E co \in CallOutcomes, lo \in CallOutcomes :
       LET c == CleanupCloseSession(run, co, lo)
       IN /\ run' = c.run
          /\ mbox' = IF c.closed THEN Expunged(mbox, flagged) ELSE mbox
          /\ flagged' = IF c.closed THEN {} ELSE flagged
  /\ pc' = "menu"
  /\ UNCHANGED <<seen, db, disk, dirs, today, delete_after_archive, error_count, batch,
                 idx, processed_count, last>>

\* ------------------------------------------------------------ search_emails
\* the search terms entered at the menu
Report == <<" ", "R", "E", "P", "O", "R", "T">>
Queries == {Pdf, <<"z", "z">>, Report, <<"%">>}

\* menu choice 2, lines 346-347: one search_emails call
Search ==
  /\ pc = "menu"
  /\ UNCHANGED email_ids
  /\ \E query \in Queries, fault \in SearchFaults :
       \E res \in {search_emails(db_conn, db, query, fault)} :
          /\ found' = res
          /\ run' = [NoRun EXCEPT !.op = "search",
                                  !.status = IF res.raises THEN "raised" ELSE "returned"]
  /\ pc' = "results"
  /\ UNCHANGED <<mbox, seen, flagged, db, disk, dirs, today, delete_after_archive,
                 error_count, batch, idx, processed_count, last, db_conn>>

\* lines 348-355 and 367-368: the results, or the exception, are printed
\* and the menu is shown again
SearchShown ==
  /\ pc = "results"
  /\ UNCHANGED email_ids
  /\ found' = NoSearch
  /\ pc' = "menu"
  /\ UNCHANGED <<mbox, seen, flagged, db, disk, dirs, today, delete_after_archive,
                 error_count, batch, idx, processed_count, run, last, db_conn>>

\* ------------------------------------------------------------ environment
\* midnight passes: datetime.now() gives the next date
NextDay ==
  /\ today < MaxDay
  /\ UNCHANGED email_ids
  /\ UNCHANGED <<db_conn, found>>
  /\ today' = today + 1
  /\ UNCHANGED <<mbox, seen, flagged, db, disk, dirs, delete_after_archive,
                 error_count, pc, batch, idx, processed_count, run, last>>

\* the steps of the program: the operations of main_menu
Menu ==
  \/ ProcessConnect
  \/ ProcessSearch
  \/ ProcessOne
  \/ ProcessBreak
  \/ ProcessEnd
  \/ ProcessClose
  \/ CleanupConnect
  \/ CleanupConfirm
  \/ CleanupClose
  \/ Search
  \/ SearchShown

Next ==
  \/ Menu
  \/ NextDay

Spec == Init /\ [][Next]_vars

SpecLongIds == InitLongIds /\ [][Next]_vars

SpecNoStore == InitNoStore /\ [][Next]_vars

\* the large inbox, worked through within one day
SpecBulk == InitBulk /\ [][Menu]_vars

\* ---------------------------------------------------------------------
\* Properties
\* ---------------------------------------------------------------------
\* the step just taken is one call of process_single_email
CalledOne == pc = "batch" /\ idx' = idx + 1

\* the allocated directories of message m, one per archive date
DirsOf(m) ==
  {ArchiveDir(d, safe_decode_header(Message(m).From), m) : d \in Days}

\* the files of directory dir, and those written completely
FilesIn(dsk, dir) == {q \in DOMAIN dsk : q[1] = dir}
WrittenIn(dsk, dir) == {q \in FilesIn(dsk, dir) : dsk[q] # "partial"}

\* C1: a store record for a message identifier exists if and only if at
\* least one attachment file of that message was written under one of the
\* message's allocated directories, and a message counted as processed has
\* both the record and a file.
C1_RecordIffFile ==
  /\ \A m \in MsgIds :
       m \in StoredIds(db) <=> \E dir \in DirsOf(m) : WrittenIn(disk, dir) # {}
  /\ last.ret =>
       /\ last.id \in StoredIds(db)
       /\ WrittenIn(disk, last.dir) # {}

\* C2: store_email_metadata is atomic.  Every step leaves the committed
\* store as it was, or adds exactly one archived_emails row together with
\* one search_index row for each keyword of that row's subject and sender;
\* the rows that were there are kept.
StoreStep(d, d2) ==
  \/ d2 = d
  \/ /\ Len(d2.emails) = Len(d.emails) + 1
     /\ SubSeq(d2.emails, 1, Len(d.emails)) = d.emails
     /\ Len(d2.index) >= Len(d.index)
     /\ SubSeq(d2.index, 1, Len(d.index)) = d.index
     /\ LET e == d2.emails[Len(d2.emails)]
            K == Keywords(e.subject, e.sender)
        IN /\ Len(d2.index) = Len(d.index) + Cardinality(K)
           /\ {d2.index[i].keyword : i \in (Len(d.index) + 1)..Len(d2.index)} = K

C2_StoreAtomic == [][StoreStep(db, db')]_vars

\* a call that failed at its second keyword INSERT, after the record and
\* one keyword row were executed, and left no record behind
C2_Witness ==
  /\ last.failed_at = <<"keyword", 2>>
  /\ last.id \notin StoredIds(db)

\* C3: a store_email_metadata call for an identifier that is already
\* stored is rejected and leaves the store as it was: the first record with
\* all its fields, the number of archived_emails rows and the search_index
\* rows.
C3_DuplicateRejected ==
  [][(CalledOne /\ last'.attachments # <<>> /\ last'.id \in StoredIds(db))
       => (db' = db /\ last'.store_failed)]_vars

\* a call that saved attachments for an identifier the store already held
C3_Witness ==
  /\ last.attachments # <<>>
  /\ last.failed_at = <<"unique", 0>>
  /\ last.id \in StoredIds(db)

\* C4: over any number of runs the store holds at most one record per
\* message identifier, a run calls process_single_email only for messages
\* not yet marked seen, and a message is archived only by a call that found
\* it unseen.
OneRecordPerId(d) ==
  \A i, j \in 1..Len(d.emails) : d.emails[i].email_id = d.emails[j].email_id => i = j

C4_Idempotent ==
  [][/\ OneRecordPerId(db')
     /\ CalledOne => batch[idx] \notin seen
     /\ db' # db => (CalledOne /\ batch[idx] \notin seen
                      /\ StoredIds(db') = StoredIds(db) \cup {batch[idx]}
                      /\ batch[idx] \in seen')]_vars

\* a later run that meets an archived, seen message still in the inbox
C4_Witness ==
  /\ pc = "batch"
  /\ \E m \in mbox : m \in seen /\ m \in StoredIds(db)
  /\ \E m \in mbox : m \notin seen /\ batch = <<m>>

\* C5: when the store insert of a message fails, the message is not
\* counted as processed (process_single_email does not return True) and
\* the run goes on.
C5_StoreFailureReported ==
  last.store_failed => (~last.ret /\ last.outcome # "archived")

\* C6: once the error counter has reached max_errors, no further
\* identifier of the run is fetched or processed, and a run that stopped
\* with identifiers left goes through the closing step, where the session
\* is closed and logged out.
C6_BudgetStopsAndReleases ==
  [][/\ (pc = "batch" /\ BudgetSpent) =>
          (pc' \in {"batch", "closing"}
           /\ UNCHANGED <<seen, db, disk, dirs, flagged, error_count, last>>)
     /\ (pc = "closing" /\ pc' = "menu" /\ BudgetSpent /\ idx <= Len(batch)) =>
          (run'.close_called /\ run'.logout_called)]_vars

\* C7: a run of process_emails that acquired a session has called close
\* and logout by the time it returns, on every exit path.
C7_AlwaysClosesAndLogsOut ==
  (run.op = "process" /\ run.connected /\ run.status # "running")
    => (run.close_called /\ run.logout_called)

\* C8: no failure leaves process_emails as an exception, and a
\* connection failure (a step from the menu back to the menu) fetches no
\* message, writes no file and inserts no store row.
C8_NoExceptionEscapes ==
  [][/\ run'.op = "process" => run'.status \in {"running", "returned"}
     /\ (run'.op = "process" /\ pc' = "menu") => run'.status = "returned"
     /\ (pc = "menu" /\ pc' = "menu") =>
          UNCHANGED <<mbox, seen, flagged, db, disk, dirs, error_count>>]_vars

\* a run with per-message exceptions whose close failed, returned normally
C8_Witness ==
  /\ run.op = "process"
  /\ run.status = "returned"
  /\ run.connected
  /\ run.close_called
  /\ ~run.logout_called
  /\ error_count > 0

\* C9: a message leaves the mailbox only by the expunge that
\* cleanup_mailbox issues after the answer 'y'.
C9_PurgeOnlyOnConfirmation ==
  [][mbox' # mbox => (pc = "confirm" /\ pc' = "purged")]_vars

\* C10 as stated: a call that saved no attachment inserts no record, leaves
\* the message's directory without files, is not counted as processed or
\* as an error, and flags nothing.
C10_NothingLeft ==
  [][(CalledOne /\ last'.outcome = "no_attachments"
        /\ FilesIn(disk, last'.dir) = {})
       => /\ db' = db
          /\ FilesIn(disk', last'.dir) = {}
          /\ processed_count' = processed_count
          /\ error_count' = error_count
          /\ flagged' = flagged]_vars

\* C10 amended: a call that saved no attachment inserts no record, writes
\* no complete file (the only files it creates or changes are partial files
\* in the message's directory, left by parts whose write failed after the
\* file was opened; no file is removed), is not counted as processed or as
\* an error, and flags nothing.
C10_NothingArchived ==
  [][(CalledOne /\ last'.outcome = "no_attachments")
       => /\ db' = db
          /\ \A q \in DOMAIN disk' :
               (q \notin DOMAIN disk \/ disk'[q] # disk[q])
                 => (q[1] = last'.dir /\ disk'[q] = "partial")
          /\ \A q \in DOMAIN disk : q \in DOMAIN disk'
          /\ ~last'.ret
          /\ processed_count' = processed_count
          /\ error_count' = error_count
          /\ flagged' = flagged]_vars

\* a call for a message with attachment parts, every write of which failed
C10_Witness ==
  /\ last.outcome = "no_attachments"
  /\ last.write_failed
  /\ FilesIn(disk, last.dir) # {}

\* C11: an archive directory is never shared by two messages.  Two stored
\* records (of two message identifiers) never name the same archive
\* directory, and the directory the call just made allocated is not the
\* directory of a record of another identifier, also when the archive date
\* and the sanitized sender local part are equal.
C11_DirectoryPerMessage ==
  /\ \A i, j \in 1..Len(db.emails) :
       i # j => db.emails[i].archive_path # db.emails[j].archive_path
  /\ (pc = "batch" /\ last.dir # None) =>
       \A i \in 1..Len(db.emails) :
          db.emails[i].email_id # last.id => db.emails[i].archive_path # last.dir

\* C12: search_emails called on an archiver whose store connection was
\* never established returns an empty list and logs an error; no exception
\* reaches the caller.
C12_SearchWithoutStore ==
  (pc = "results" /\ db_conn = None)
    => (found.results = <<>> /\ found.logged /\ ~found.raises)

\* q is a substring of text, letters compared without regard to case
Contains(text, q) ==
  \E i \in 0..(Len(text) - Len(q)) :
     \A k \in 1..Len(q) : lowerChar(text[i + k]) = lowerChar(q[k])

\* q occurs in the subject, the sender, the attachment list, the date or
\* one of the keywords of the record e
HasQuery(e, q) ==
  \/ Contains(e.subject, q)
  \/ Contains(e.sender, q)
  \/ Contains(e.attachments, q)
  \/ Contains(e.date_received, q)
  \/ \E w \in Keywords(e.subject, e.sender) : Contains(w, q)

\* C13: a search_emails(q) call that did not fail returns at most 100
\* results, each the row of a stored record that has q as a
\* case-insensitive substring of its subject, sender, attachment list, date
\* or one of its keywords; a record with q inside its attachment list is
\* among the results when fewer than 100 records match; a query that occurs
\* in no field of any record gives the empty list.
C13_SearchResults ==
  (pc = "results" /\ ~found.raises /\ ~found.logged) =>
     LET q == found.query
         recs == 1..Len(db.emails)
         res == found.results
     IN /\ Len(res) <= SearchLimit
        /\ \A k \in 1..Len(res) :
             \E i \in recs : ResultRow(db.emails[i]) = res[k] /\ HasQuery(db.emails[i], q)
        /\ \A i \in recs :
             (Contains(db.emails[i].attachments, q)
                /\ Cardinality({j \in recs : HasQuery(db.emails[j], q)}) < SearchLimit)
               => \E k \in 1..Len(res) : res[k] = ResultRow(db.emails[i])
        /\ (\A i \in recs : ~HasQuery(db.emails[i], q)) => res = <<>>

\* C14: after a store_email_metadata call that committed a record, the
\* search_index rows the call wrote are one row for each keyword of the
\* record's subject and sender, and every one of them references the
\* archived_emails row just inserted, whatever the number of keywords.
C14_KeywordRowsReferenceRecord ==
  [][Len(db'.emails) = Len(db.emails) + 1 =>
       LET e == db'.emails[Len(db'.emails)]
           K == Keywords(e.subject, e.sender)
           written == (Len(db.index) + 1)..Len(db'.index)
       IN /\ Cardinality(written) = Cardinality(K)
          /\ {db'.index[k].keyword : k \in written} = K
          /\ \A k \in written : db'.index[k].email_id = Len(db'.emails)]_vars

\* C15: a fetch that answers with a status other than OK makes the run
\* skip that identifier: the error counter is not incremented, no file,
\* directory or store row is written, nothing is flagged or counted as
\* processed, and the loop goes on to the next identifier of the batch.
C15_FetchFailureSkipped ==
  [][(CalledOne /\ last'.outcome = "fetch_no")
       => /\ error_count' = error_count
          /\ UNCHANGED <<db, disk, dirs, flagged, mbox, processed_count>>
          /\ ~last'.ret
          /\ pc' = "batch"
          /\ idx' = idx + 1]_vars

\* the first identifier of a batch of two was skipped after a failed
\* fetch, and the second is next
C15_Witness ==
  /\ pc = "batch"
  /\ last.outcome = "fetch_no"
  /\ last.id = batch[1]
  /\ idx = 2
  /\ Len(batch) = 2
  /\ ~BudgetSpent

\* the name the loop gives part i of message id when k names were appended
\* before it
NameOf(id, i, k) ==
  LET part == Message(id).parts[i]
  IN SafeFilename(safe_decode_header(IF part.filename = None
                                     THEN << SynthName(k, part.subtype) >>
                                     ELSE part.filename))

\* C16: a failure writing one attachment part skips only that part.  For
\* every call that reached the attachment loop, the filename list holds
\* exactly the parts whose own write succeeded, in part order (so every
\* part after a failed one was still attempted), and a call that failed
\* in no other way leaves the error counter as it was.
C16_WriteFailureSkipsPart ==
  [][(CalledOne /\ last'.dir # None) =>
       LET id == last'.id
           ok == {i \in WrittenParts(id) : last'.wmode[i] = "ok"}
           rank(i) == Cardinality({j \in ok : j <= i})
       IN /\ Len(last'.attachments) = Cardinality(ok)
          /\ \A i \in ok : last'.attachments[rank(i)] = NameOf(id, i, rank(i) - 1)
          /\ last'.outcome # "exception" => error_count' = error_count]_vars

\* the write of the first attachment of message 2 failed and the second
\* attachment was saved and archived
C16_Witness ==
  /\ last.outcome = "archived"
  /\ last.write_failed
  /\ last.wmode[3] # "ok"
  /\ last.wmode[4] = "ok"
  /\ Len(last.attachments) = 1
  /\ <<last.dir, last.attachments[1]>> \in DOMAIN disk

\* C17: one run of process_emails attempts at most max_emails_per_session
\* of the identifiers the unseen search returned: the call at loop position
\* idx is for the idx-th identifier returned, idx never exceeds the cap, and
\* within a run the position only moves forward by one and the list of
\* identifiers stays as returned, so each of the first 100 identifiers is
\* attempted at most once and in the order returned.
C17_SessionCap ==
  [][/\ CalledOne =>
          /\ idx <= max_emails_per_session
          /\ idx <= Len(email_ids)
          /\ last'.id = email_ids[idx]
     /\ (pc = "batch" /\ pc' = "batch") =>
          (idx' \in {idx, idx + 1} /\ email_ids' = email_ids)
     /\ (pc = "batch" /\ idx' # idx) => (pc' = "batch" /\ last'.id = email_ids[idx])]_vars

\* a run whose search returned more identifiers than the cap has attempted
\* the first 100 and ends with the rest left for a later run
C17_Witness ==
  /\ pc = "batch"
  /\ Len(email_ids) > max_emails_per_session
  /\ idx = max_emails_per_session + 1
  /\ idx > Len(batch)
  /\ email_ids[idx] \notin seen
  /\ \A k \in 1..max_emails_per_session : email_ids[k] \in seen

\* C18: the error budget is per run.  Every run of process_emails enters
\* its loop with an error counter of zero, and a run that has attempted
\* fewer than max_errors identifiers (so met fewer than max_errors
\* per-message exceptions) is not broken off while identifiers of its batch
\* are left, whatever happened in earlier runs on the same archiver.
C18_ErrorBudgetPerRun ==
  [][/\ (pc = "search" /\ pc' = "batch") => error_count' = 0
     /\ (pc = "batch" /\ idx <= Len(batch) /\ idx <= max_errors)
          => pc' # "closing"]_vars

\* C19: a message flagged for deletion by the pipeline has a committed
\* store record with its identifier, and nothing is flagged when
\* delete_after_archive is false.
C19_FlaggedIsStored ==
  /\ \A m \in flagged : m \in StoredIds(db)
  /\ flagged # {} => delete_after_archive

\* C20: within one message, distinct attachment parts are written to
\* distinct files.  After a call that reached the attachment loop, the
\* filename list has no duplicates, and the file of every part whose write
\* succeeded still holds that part's payload: no later part of the message
\* has overwritten it.
C20_DistinctFilesPerPart ==
  [][(CalledOne /\ last'.dir # None) =>
       LET id == last'.id
           names == last'.attachments
           ok == {i \in WrittenParts(id) : last'.wmode[i] = "ok"}
           rank(i) == Cardinality({j \in ok : j <= i})
       IN /\ \A a, b \in 1..Len(names) : names[a] = names[b] => a = b
          /\ \A i \in ok :
               disk'[<<last'.dir, NameOf(id, i, rank(i) - 1)>>]
                 = Message(id).parts[i].payload]_vars
====
